---- MODULE Spec2Model ----
(***************************************************************************)
(* Model of the gsh_benchmarker sweep orchestrator                         *)
(* (GeoServerTester.run_comprehensive_test / run_single_test) and of the   *)
(* session result store (ReportGenerator.consolidate_results).             *)
(***************************************************************************)
EXTENDS Integers, Sequences, FiniteSets, TLC

(***************************************************************************)
(* Bounds of the model                                                     *)
(***************************************************************************)
\* longest capabilities layer list returned by a discovery
MaxLayers == 2
\* longest concurrency list a caller passes to the sweep
MaxRequested == 2
\* number of comprehensive sweeps one orchestrator runs
MaxSweeps == 2
\* last tick of the wall clock (ticks are half seconds)
MaxClock == 2
\* most load-tool runs a sweep may plan (layers times levels)
MaxTests == 4
\* longest result list handed directly to the result store
MaxResults == 2
\* number of direct consolidate calls on the result store
MaxStoreCalls == 2
\* most lines of a load-tool report
MaxReportLines == 2
\* most layers of a capabilities document
MaxDocLayers == 2

(***************************************************************************)
(* Program constants and input domains                                     *)
(***************************************************************************)
\* common/config.py: CONCURRENCY_LEVELS
CONCURRENCY_LEVELS == <<1, 10, 100, 500, 1000, 2000, 3000, 4000, 5000>>
\* core.py:406  min(100, total_requests)
FALLBACK_CONCURRENCY == 100
\* strftime("%Y%m%d_%H%M%S") has one-second resolution; the clock ticks
\* twice a second
TicksPerSecond == 2
\* service type of GeoServerTester / ReportGenerator("geoserver")
SERVICE_TYPE == "geoserver"

LayerNames == {"X", "Y", "Z"}
LevelValues == {10, 100}
TotalValues == {50, 200}
\* outcomes of one run of the load tool (run_apache_bench)
\* how a run of the load tool can end: exit code 0, another exit code, the
\* 300 s timeout, or an error starting the tool or writing its log
AbOutcomes == {"ok", "nonzero", "timeout", "ioerror"}
\* server_url of a tester: none, or a base URL
ServerUrls == {"", "http://server/geoserver"}
\* what a GetCapabilities request can come to: requests.get fails, the status
\* is not a success, the body is not well-formed XML, the body declares an
\* encoding the XML parser does not support, or a document is parsed
CapabilitiesOutcomes == {"network", "status", "malformed", "unsupported", "document"}

(***************************************************************************)
(* Helpers                                                                 *)
(***************************************************************************)
BoundedSeq(S, n) == UNION {[1..k -> S] : k \in 0..n}

Range(s) == {s[i] : i \in 1..Len(s)}

Min(a, b) == IF a <= b THEN a ELSE b

\* datetime.now().strftime("%Y%m%d_%H%M%S"): the clock truncated to seconds
format_timestamp(t) == t \div TicksPerSecond

\* the keys of the dict built by "self.layers[layer_info.name] = layer_info"
\* over layer_list, in insertion order (a repeated name keeps its first slot)
RECURSIVE DictKeys(_)
DictKeys(layer_list) ==
    IF layer_list = <<>> THEN <<>>
    ELSE LET front == DictKeys(SubSeq(layer_list, 1, Len(layer_list) - 1))
             last  == layer_list[Len(layer_list)]
         IN  IF last \in Range(front) THEN front ELSE Append(front, last)

\* [c for c in concurrency_levels if c <= total_requests]
TrimLevelsNoFilter(levels, total) == levels
TrimLevels(levels, total) == SelectSeq(levels, LAMBDA c : c <= total)

\* "if not concurrency_levels: concurrency_levels = [min(100, total_requests)]"
EnsureLevelsNoCap(levels, total) ==
    IF levels = <<>> THEN <<FALLBACK_CONCURRENCY>> ELSE levels
EnsureLevels(levels, total) ==
    IF levels = <<>> THEN <<Min(FALLBACK_CONCURRENCY, total)>> ELSE levels

\* test_id = f"{layer_key}_c{concurrency}_{timestamp}"
TestId(layer_key, concurrency, timestamp) == <<layer_key, concurrency, timestamp>>

\* results_dir / f"{test_id}.json", f"{output_prefix}.log"
ArtifactPath(test_id, ext) == [kind |-> ext, name |-> test_id]

\* results_dir / f"consolidated_{service_type}_results_{timestamp}.json",
\* the file consolidate_results opens with "w"
ConsolidatedTargetFixedName(service_type, timestamp) ==
    [kind |-> "consolidated", name |-> <<service_type, 0, 0>>]
ConsolidatedTarget(service_type, timestamp) ==
    [kind |-> "consolidated", name |-> <<service_type, 0, timestamp>>]

\* open(path, "w") and json.dump: the file is created or its content replaced
WriteFileKeepExisting(fs, path, content) ==
    [p \in (DOMAIN fs) \cup {path} |-> IF p \in DOMAIN fs THEN fs[p] ELSE content]
WriteFile(fs, path, content) ==
    [p \in (DOMAIN fs) \cup {path} |-> IF p = path THEN content ELSE fs[p]]

\* all orders in which list(set(...)) may enumerate the set S
Orderings(S) ==
    {s \in [1..Cardinality(S) -> S] : \A i, j \in 1..Cardinality(S) : s[i] = s[j] => i = j}

(***************************************************************************)
(* BenchmarkResult as run_single_test builds it (core.py:331-344)          *)
(***************************************************************************)
BenchmarkResult(layer_key, concurrency, total, timestamp) ==
    [target         |-> layer_key,
     service_type   |-> SERVICE_TYPE,
     concurrency    |-> concurrency,
     total_requests |-> total,
     test_id        |-> TestId(layer_key, concurrency, timestamp),
     timestamp      |-> timestamp]

\* the per-test metadata written by _save_test_metadata
TestMetadata(result) ==
    [layer             |-> result.target,
     timestamp         |-> result.timestamp,
     test_id           |-> result.test_id,
     total_requests    |-> result.total_requests,
     concurrency_level |-> result.concurrency]

(***************************************************************************)
(* ReportGenerator.consolidate_results (reports.py:39-102)                 *)
(***************************************************************************)
\* one entry of consolidated["results"] (reports.py:73-90)
ResultData(result) ==
    [target            |-> result.target,
     service_type      |-> result.service_type,
     timestamp         |-> result.timestamp,
     test_id           |-> result.test_id,
     total_requests    |-> result.total_requests,
     concurrency_level |-> result.concurrency]

\* "for result in results: ... consolidated['results'].append(result_data)"
ResultsArrayDropLast(results) ==
    [i \in 1..(Len(results) - 1) |-> ResultData(results[i])]
ResultsArray(results) ==
    [i \in 1..Len(results) |-> ResultData(results[i])]

\* the set behind "targets_tested": set(r.target for r in results)
TargetsFromConfig(results, test_config) == Range(test_config.layers_tested)
TargetsOf(results, test_config) == {results[i].target : i \in 1..Len(results)}

\* the dict dumped to the consolidated file; order is the enumeration order
\* list(set(...)) happened to produce
Consolidated(service_type, results, timestamp, test_config, order) ==
    [test_suite |->
        [service_type            |-> service_type,
         timestamp               |-> timestamp,
         total_requests_per_test |-> test_config.total_requests,
         concurrency_levels      |-> test_config.concurrency_levels,
         targets_tested          |-> order,
         total_tests             |-> Len(results)],
     configuration |-> test_config,
     results       |-> ResultsArray(results)]

(***************************************************************************)
(* State                                                                   *)
(***************************************************************************)
VARIABLES
    layers,             \* self.layers: the discovered layer names, in dict order
    server_url,         \* self.server_url ("" when none is configured)
    discovered,         \* what the last discover_layers() call returned
    service_info,       \* self.service_info, as a set of (key, value) pairs
    layers_url,         \* self.server_url when self.layers was last assigned
    files,              \* the result directory: path -> content
    clock,              \* wall clock, in ticks
    pc,                 \* where run_comprehensive_test stands
    sweeps,             \* comprehensive sweeps started so far
    requested,          \* the concurrency_levels argument (after the None default)
    total_requests,     \* the total_requests argument
    concurrency_levels, \* the planned levels (core.py:397-407)
    removed_count,      \* the count of trimmed levels reported (core.py:400)
    timestamp,          \* the sweep's session timestamp (core.py:412)
    all_results,        \* the sweep's result list (core.py:413)
    li,                 \* index of the layer the sweep is at
    ci,                 \* index of the concurrency level the sweep is at
    calls,              \* probes and load-tool runs of the current sweep, in order
    store_in,           \* arguments of the last consolidate_results call
    store_calls,        \* direct consolidate_results calls made so far
    unit_op,            \* the function last called on its own
    unit_in,            \* its arguments
    unit_out,           \* what it returned
    running,            \* the load-tool child processes that are alive (by test id)
    other               \* a second orchestrator process on the same directory

vars == <<layers, server_url, discovered, service_info, layers_url, files, clock, pc, sweeps, requested, total_requests,
          concurrency_levels, removed_count, timestamp, all_results, li, ci,
          calls, store_in, store_calls, unit_op, unit_in, unit_out, running,
          other>>

\* the tester's own fields (core.py:61-67, utils.py:48-56)
tester == <<layers, server_url, discovered, service_info, layers_url>>

\* the record of a function called on its own
unit == <<unit_op, unit_in, unit_out>>

\* what lives outside the tester's process
outside == <<running, other>>

sweepLocals == <<requested, total_requests, concurrency_levels, removed_count,
                 timestamp, all_results, li, ci, calls>>

NoFiles == [p \in {} |-> {}]
NoArgs == [results |-> <<>>, timestamp |-> -1, service_type |-> "none"]
\* a second orchestrator that has not called run_comprehensive_test
NoSweep == [pc |-> "idle", layers |-> <<>>, total_requests |-> 0,
            concurrency_levels |-> <<>>, timestamp |-> -1, all_results |-> <<>>,
            li |-> 0, ci |-> 0]

Start(at) ==
    /\ layers = <<>>
    /\ server_url \in ServerUrls
    /\ discovered = "none"
    /\ service_info = {}
    /\ layers_url = server_url
    /\ files = NoFiles
    /\ clock = 0
    /\ pc = at
    /\ sweeps = 0
    /\ requested = <<>>
    /\ total_requests = 0
    /\ concurrency_levels = <<>>
    /\ removed_count = 0
    /\ timestamp = -1
    /\ all_results = <<>>
    /\ li = 0
    /\ ci = 0
    /\ calls = <<>>
    /\ store_in = NoArgs
    /\ store_calls = 0
    /\ unit_op = "none"
    /\ unit_in = <<>>
    /\ unit_out = <<>>
    /\ running = {}
    /\ other = NoSweep

\* a tester that has been constructed and not used yet
Init == Start("idle")

\* the places where the code reads the clock next: core.py:412 in a sweep,
\* the caller's datetime.now() before a direct consolidate_results call,
\* core.py:305 and ui.py:843 in a single-layer session
ClockReaders == {"stamp", "store", "single_test", "single_store"}

(***************************************************************************)
(* Environment: time passes                                                *)
(***************************************************************************)
Tick ==
    /\ pc \in ClockReaders \/ other.pc \in ClockReaders
    /\ clock < MaxClock
    /\ clock' = clock + 1
    /\ UNCHANGED <<tester, unit, outside, files, pc, sweeps, sweepLocals, store_in, store_calls>>

(***************************************************************************)
(* GeoServerTester.discover_layers (core.py:88-116)                        *)
(***************************************************************************)
\* CapabilitiesParser.get_capabilities (capabilities.py:50-69): a
\* RequestException (network failure, raise_for_status) and an ET.ParseError
\* give None; any other exception of ET.fromstring leaves the function
get_capabilities(outcome) ==
    CASE outcome \in {"network", "status", "malformed"} -> "None"
      [] outcome = "unsupported" -> "raise"
      [] OTHER -> "root"

\* core.py:94-116: the new value of self.layers. The dict is rebuilt from
\* layer_list (empty when there is no capabilities document,
\* capabilities.py:280-281); an exception reaches "except Exception" before
\* line 98 and leaves the dict as it was
LayersAfter(old, fetched, layer_list) ==
    CASE fetched = "raise" -> old
      [] fetched = "None" -> <<>>
      [] OTHER -> DictKeys(layer_list)

\* core.py:90-92, 103-116: the value discover_layers returns
DiscoverReturns(url, fetched, new_layers) ==
    url # "" /\ fetched = "root" /\ new_layers # <<>>

\* the caller's "if not tester.discover_layers(): return" (cli.py:242-244,
\* gsh_benchmarker.py:271-273)
AfterDiscoveryGoOn(ok) == "idle"
AfterDiscovery(ok) == IF ok THEN "idle" ELSE "exit"

\* get_service_info (capabilities.py:232-254) of a server's document, which
\* has a Service element with a Title
ServiceInfoOf(url) == {<<"title", url>>}

\* what get_service_info returns for the documents a server may send: no
\* Service element or none of the fields, a Title, a Title and an Abstract
ServiceInfos(url) ==
    {{}, ServiceInfoOf(url), ServiceInfoOf(url) \cup {<<"abstract", "maps">>}}

\* core.py:95: self.service_info is assigned together with layer_list, before
\* the layers are looked at; {} without a document (capabilities.py:280-281)
ServiceInfoAfter(old, fetched, info) ==
    CASE fetched = "raise" -> old
      [] fetched = "None" -> {}
      [] OTHER -> info

\* the tester after discover_layers (core.py:88-116) when the request ends
\* with outcome and the document holds layer_list and the service info info
DiscoveredTester(outcome, layer_list, info) ==
    LET fetched    == get_capabilities(outcome)
        new_layers == IF server_url = "" THEN layers
                      ELSE LayersAfter(layers, fetched, layer_list)
    IN  /\ layers' = new_layers
        /\ service_info' = IF server_url = "" THEN service_info
                           ELSE ServiceInfoAfter(service_info, fetched, info)
        /\ layers_url' = IF server_url = "" \/ fetched = "raise"
                          THEN layers_url ELSE server_url
        /\ discovered' = IF DiscoverReturns(server_url, fetched, new_layers)
                         THEN "true" ELSE "false"

\* one discover_layers() call and its caller's check. The callers discover
\* before their first sweep; this specification does the same.
DiscoverLayers ==
    /\ pc = "idle"
    /\ sweeps = 0
    /\ \E outcome \in CapabilitiesOutcomes,
          layer_list \in BoundedSeq(LayerNames, MaxLayers) :
           /\ DiscoveredTester(outcome, layer_list, ServiceInfoOf(server_url))
           /\ pc' = AfterDiscovery(discovered' = "true")
    /\ UNCHANGED <<server_url, unit, outside, files, clock, sweeps, sweepLocals, store_in, store_calls>>

(***************************************************************************)
(* The server setup of the menu (ui.py:306-353): set_server_url and        *)
(* discover_layers on one tester, as often as the user asks                *)
(***************************************************************************)
\* the URLs a user may enter
MenuUrls == {"http://server/geoserver", "http://other/geoserver"}

MenuInit == Start("menu")

\* GeoServerTester.set_server_url (core.py:79-86)
SetServerUrl ==
    /\ pc = "menu"
    /\ \E url \in MenuUrls : server_url' = url /\ layers_url' = url
    /\ layers' = <<>>
    /\ service_info' = {}
    /\ discovered' = "none"
    /\ UNCHANGED <<unit, outside, files, clock, pc, sweeps, sweepLocals, store_in,
                   store_calls>>

\* discover_layers() called from the menu, which stays up whatever it returns
MenuDiscoverLayers ==
    /\ pc = "menu"
    /\ \E outcome \in CapabilitiesOutcomes,
          layer_list \in BoundedSeq(LayerNames, MaxLayers),
          info \in ServiceInfos(server_url) :
           DiscoveredTester(outcome, layer_list, info)
    /\ UNCHANGED <<server_url, unit, outside, files, clock, pc, sweeps, sweepLocals,
                   store_in, store_calls>>

MenuNext ==
    \/ SetServerUrl
    \/ MenuDiscoverLayers

MenuSpec == MenuInit /\ [][MenuNext]_vars

(***************************************************************************)
(* GeoServerTester.run_comprehensive_test (core.py:385-482)                *)
(***************************************************************************)
\* core.py:392-407: default, trim, report, fallback
Plan(total, levels) ==
    /\ pc = "idle"
    /\ sweeps < MaxSweeps
    /\ Len(layers) * Len(EnsureLevels(TrimLevels(levels, total), total)) <= MaxTests
    /\ sweeps' = sweeps + 1
    /\ requested' = levels
    /\ total_requests' = total
    /\ concurrency_levels' = EnsureLevels(TrimLevels(levels, total), total)
    /\ removed_count' = Len(levels) - Len(TrimLevels(levels, total))
    /\ pc' = "clear"
    /\ UNCHANGED <<tester, unit, outside, files, clock, timestamp, all_results, li, ci, calls,
                   store_in, store_calls>>

\* run_comprehensive_test(total_requests, concurrency_levels)
StartSweep ==
    \E total \in TotalValues, levels \in BoundedSeq(LevelValues, MaxRequested) :
        Plan(total, levels)

\* run_comprehensive_test(total_requests): concurrency_levels is None
StartSweepDefault ==
    \E total \in TotalValues : Plan(total, CONCURRENCY_LEVELS)

\* BaseBenchmarker.clear_results (utils.py:63-73): rmtree and mkdir
ClearedDirKeepAll(fs) == fs
ClearedDirKeepRecords(fs) ==
    [p \in {q \in DOMAIN fs : q.kind = "consolidated"} |-> fs[p]]
ClearedDir(fs) == NoFiles

ClearResults ==
    /\ pc = "clear"
    /\ files' = ClearedDir(files)
    /\ pc' = "stamp"
    /\ UNCHANGED <<tester, unit, outside, clock, sweeps, sweepLocals, store_in, store_calls>>

\* core.py:413 "all_results = []"
FreshResultsKeepOld(old) == old
FreshResults(old) == <<>>

\* where the layer loop goes from layer index i
NextLayerPc(i) == IF i <= Len(layers) THEN "probe" ELSE "consolidate"

\* core.py:412-414: the session timestamp and the empty result list
Stamp ==
    /\ pc = "stamp"
    /\ timestamp' = format_timestamp(clock)
    /\ all_results' = FreshResults(all_results)
    /\ li' = 1
    /\ ci' = 0
    /\ pc' = NextLayerPc(1)
    /\ UNCHANGED <<tester, unit, outside, files, clock, sweeps, requested, total_requests,
                   concurrency_levels, removed_count, calls, store_in, store_calls>>

\* what the tile request of a probe comes to: the status code of the
\* response, or NoResponse when requests.get raises a RequestException
NoResponse == -1
ProbeStatuses == {200, 404, NoResponse}

\* the exceptions test_connectivity catches (core.py:182)
ProbeCaughtRequestOnly == {"RequestException"}
ProbeCaught == {"RequestException", "ValueError"}

\* GeoServerTester.test_connectivity (core.py:176-183): generate_tile_url
\* raises ValueError without a server URL (core.py:134-135), requests.get
\* raises RequestException on a network failure; what is returned, how many
\* requests were sent, and whether an exception left the function
test_connectivity(url, status) ==
    LET exc == CASE url = "" -> "ValueError"
                 [] status = NoResponse -> "RequestException"
                 [] OTHER -> "none"
        sent == IF url = "" THEN 0 ELSE 1
    IN  CASE exc = "none" ->
                 [accessible |-> status = 200, status_code |-> status,
                  requests |-> sent, raised |-> FALSE]
          [] exc \in ProbeCaught ->
                 [accessible |-> FALSE, status_code |-> 0,
                  requests |-> sent, raised |-> FALSE]
          [] OTHER ->
                 [accessible |-> FALSE, status_code |-> 0,
                  requests |-> sent, raised |-> TRUE]

\* CapabilitiesParser.test_layer_access (capabilities.py:256-271): the URL is
\* always there, only RequestException is caught
test_layer_access(status) ==
    IF status = NoResponse
    THEN [accessible |-> FALSE, status_code |-> 0, requests |-> 1, raised |-> FALSE]
    ELSE [accessible |-> status = 200, status_code |-> status,
          requests |-> 1, raised |-> FALSE]

\* one entry of the call log: a probe, or a run of the load tool with its
\* -n and -c arguments and its output prefix (the test id)
ProbeCall(layer_key, ok) ==
    [kind |-> "probe", layer |-> layer_key, concurrency |-> 0, total |-> 0,
     test_id |-> <<layer_key, 0, 0>>, ok |-> ok]
AbCall(layer_key, concurrency, total, test_id, ok) ==
    [kind |-> "ab", layer |-> layer_key, concurrency |-> concurrency,
     total |-> total, test_id |-> test_id, ok |-> ok]

\* core.py:429-446: probe the layer; an inaccessible layer is skipped
\* ("continue"), an accessible one enters the level loop
AfterProbeAlwaysTest(accessible) == "test"
AfterProbe(accessible) == IF accessible THEN "test" ELSE "skip"

Probe ==
    /\ pc = "probe"
    /\ \E status \in ProbeStatuses :
        LET accessible == test_connectivity(server_url, status).accessible
        IN  /\ calls' = Append(calls, ProbeCall(layers[li], accessible))
            /\ IF AfterProbe(accessible) = "test"
               THEN /\ pc' = "test"
                    /\ ci' = 1
                    /\ li' = li
               ELSE /\ pc' = NextLayerPc(li + 1)
                    /\ li' = li + 1
                    /\ ci' = 0
    /\ UNCHANGED <<tester, unit, outside, files, clock, sweeps, requested, total_requests,
                   concurrency_levels, removed_count, timestamp, all_results,
                   store_in, store_calls>>

\* run_apache_bench (utils.py:109-130): the log is written once the tool has
\* exited, whatever its exit code; a timeout or an OSError raises out of
\* subprocess.run before that and is answered with (False, {"error": ...})
AbWritesLog(outcome) == outcome \in {"ok", "nonzero"}
AbSuccess(outcome) == outcome = "ok"

\* utils.py:127-130: TimeoutExpired and every other Exception are caught, so
\* no outcome of the tool leaves run_apache_bench as an exception
AbRaisesOnIoError(outcome) == outcome = "ioerror"
AbRaises(outcome) == FALSE

\* core.py:457-458 "if result: all_results.append(result)"
Accumulate(results, result) == Append(results, result)

\* core.py:469 and the end of the level loop: a failed test does not leave
\* the loop
AfterTest(success, i) ==
    IF i < Len(concurrency_levels) THEN "test" ELSE "next_layer"

\* core.py:448-469 with run_single_test (core.py:295-349) inlined: what the
\* test of (layers[li], concurrency_levels[ci]) leaves behind when the load
\* tool has ended with outcome, and where the loops go next
FinishTest(outcome) ==
        LET layer_key   == layers[li]
            concurrency == concurrency_levels[ci]
            test_id     == TestId(layer_key, concurrency, timestamp)
            success     == AbSuccess(outcome)
            result      == BenchmarkResult(layer_key, concurrency,
                                           total_requests, timestamp)
            logged      == IF AbWritesLog(outcome)
                           THEN WriteFile(files, ArtifactPath(test_id, "log"),
                                          [outcome |-> outcome])
                           ELSE files
        IN  /\ calls' = Append(calls, AbCall(layer_key, concurrency, total_requests,
                                             test_id, success))
            /\ files' = IF success
                        THEN WriteFile(logged, ArtifactPath(test_id, "json"),
                                       TestMetadata(result))
                        ELSE logged
            /\ all_results' = IF success THEN Accumulate(all_results, result)
                              ELSE all_results
            /\ IF AbRaises(outcome)
               THEN /\ pc' = "raised"
                    /\ UNCHANGED <<li, ci>>
               ELSE IF AfterTest(success, ci) = "test"
               THEN /\ ci' = ci + 1
                    /\ li' = li
                    /\ pc' = "test"
               ELSE /\ ci' = 0
                    /\ li' = li + 1
                    /\ pc' = NextLayerPc(li + 1)

\* one test of the level loop, from the call of run_single_test to its return
RunSingleTest ==
    /\ pc = "test"
    /\ \E outcome \in AbOutcomes : FinishTest(outcome)
    /\ UNCHANGED <<tester, unit, outside, clock, sweeps, requested, total_requests,
                   concurrency_levels, removed_count, timestamp,
                   store_in, store_calls>>

\* core.py:474-479
SweepConfig ==
    [total_requests     |-> total_requests,
     concurrency_levels |-> concurrency_levels,
     layers_tested      |-> layers,
     server             |-> IF server_url = "" THEN "unknown" ELSE server_url]

\* consolidate_results(results, timestamp, test_config) on the directory fs
ConsolidateInto(fs, service_type, results, ts, test_config, order) ==
    WriteFile(fs, ConsolidatedTarget(service_type, ts),
              Consolidated(service_type, results, ts, test_config, order))

\* core.py:471-480: the consolidated record is written when there are results
ConsolidateSweep ==
    /\ pc = "consolidate"
    /\ all_results # <<>>
    /\ \E order \in Orderings(TargetsOf(all_results, SweepConfig)) :
           files' = ConsolidateInto(files, SERVICE_TYPE, all_results, timestamp,
                                    SweepConfig, order)
    /\ store_in' = [results |-> all_results, timestamp |-> timestamp,
                    service_type |-> SERVICE_TYPE]
    /\ pc' = "done"
    /\ UNCHANGED <<tester, unit, outside, clock, sweeps, sweepLocals, store_calls>>

\* core.py:472 "if all_results:" is false: nothing is written
SkipConsolidate ==
    /\ pc = "consolidate"
    /\ all_results = <<>>
    /\ pc' = "done"
    /\ UNCHANGED <<tester, unit, outside, files, clock, sweeps, sweepLocals, store_in, store_calls>>

\* core.py:482 "return all_results"
\* the frame's locals are gone; the caller holds the returned list
Return ==
    /\ pc = "done"
    /\ pc' = "idle"
    /\ requested' = <<>>
    /\ total_requests' = 0
    /\ concurrency_levels' = <<>>
    /\ removed_count' = 0
    /\ timestamp' = -1
    /\ li' = 0
    /\ ci' = 0
    /\ calls' = <<>>
    /\ store_in' = NoArgs
    /\ UNCHANGED <<tester, unit, outside, files, clock, sweeps, all_results, store_calls>>

(***************************************************************************)
(* The result store used on its own: a caller builds a result list and     *)
(* hands it to consolidate_results (ui.py:843-852,                         *)
(* tests/test_session_isolation.py:57-79)                                  *)
(***************************************************************************)
\* 'total_requests': 1000 (tests/test_session_isolation.py:71)
StoreTotal == 1000
\* the (target, concurrency) pairs the caller's results are about
StoreEntries == {<<"X", 10>>, <<"X", 100>>, <<"Y", 10>>}
\* the 'layers_tested' the caller reports
StoreLayerLists == {<<"X">>, <<"X", "Y">>}

\* the test_config dict the caller passes along
SessionConfig(results, total, layers_tested) ==
    [total_requests     |-> total,
     concurrency_levels |-> [i \in 1..Len(results) |-> results[i].concurrency],
     layers_tested      |-> layers_tested,
     session_type       |-> "single_layer"]

\* the result lists a caller may hand over: any targets and levels, in any
\* order, all stamped ts
ResultLists(total, ts) ==
    {[i \in 1..Len(tl) |-> BenchmarkResult(tl[i][1], tl[i][2], total, ts)] :
        tl \in BoundedSeq(StoreEntries, MaxResults)}

\* the file a consolidated record is read back from (json.load)
Reload(fs, path) == fs[path]

\* an empty result directory and a ReportGenerator("geoserver")
StoreInit == Start("store")

\* session_timestamp = datetime.now().strftime(...);
\* report_gen.consolidate_results(results, session_timestamp, test_config)
ConsolidateResults ==
    /\ pc = "store"
    /\ store_calls < MaxStoreCalls
    /\ \E layers_tested \in StoreLayerLists :
       \E results \in ResultLists(StoreTotal, format_timestamp(clock)) :
       \E order \in Orderings(TargetsOf(results,
                                SessionConfig(results, StoreTotal, layers_tested))) :
           LET ts == format_timestamp(clock)
               test_config == SessionConfig(results, StoreTotal, layers_tested)
           IN  /\ files' = ConsolidateInto(files, SERVICE_TYPE, results, ts,
                                           test_config, order)
               /\ store_in' = [results |-> results, timestamp |-> ts,
                               service_type |-> SERVICE_TYPE]
    /\ store_calls' = store_calls + 1
    /\ UNCHANGED <<tester, unit, outside, clock, pc, sweeps, sweepLocals>>

StoreNext ==
    \/ Tick
    \/ ConsolidateResults

StoreSpec == StoreInit /\ [][StoreNext]_vars

(***************************************************************************)
(* The load tool's report and its parser (utils.py:133-152)                *)
(***************************************************************************)
\* a line of the report is the sequence of its whitespace-separated tokens
\* (line.split()); the lines the load tool prints, with sample values
LineRps      == <<"Requests", "per", "second:", "125.50", "[#/sec]", "(mean)">>
LineMean     == <<"Time", "per", "request:", "80.25", "[ms]", "(mean)">>
LineMeanAll  == <<"Time", "per", "request:", "8.02", "[ms]", "(mean,", "across",
                  "all", "concurrent", "requests)">>
LineFailed0  == <<"Failed", "requests:", "0">>
LineFailed40 == <<"Failed", "requests:", "40">>
LineTaken    == <<"Time", "taken", "for", "tests:", "7.97", "seconds">>
LineRate     == <<"Transfer", "rate:", "512.00", "[Kbytes/sec]", "received">>
LineComplete == <<"Complete", "requests:", "1000">>
LineServer   == <<"Server", "Software:", "nginx">>
LineEmpty    == <<>>

ReportLines == {LineRps, LineMean, LineMeanAll, LineFailed0, LineFailed40,
                LineTaken, LineRate, LineComplete, LineServer, LineEmpty}

\* the labels parse_ab_output looks for, as token sequences
LabelRps    == <<"Requests", "per", "second:">>
LabelTime   == <<"Time", "per", "request:">>
LabelMean   == <<"(mean)">>
LabelFailed == <<"Failed", "requests:">>
LabelTaken  == <<"Time", "taken", "for", "tests:">>
LabelRate   == <<"Transfer", "rate:">>

\* label in line
Contains(line, label) ==
    \E i \in 0..(Len(line) - Len(label)) :
        \A j \in 1..Len(label) : line[i + j] = label[j]

\* float(token), in hundredths, and int(token)
float(token) ==
    ("125.50" :> 12550 @@ "80.25" :> 8025 @@ "8.02" :> 802 @@ "7.97" :> 797
     @@ "512.00" :> 51200)[token]
int(token) == ("0" :> 0 @@ "40" :> 40 @@ "1000" :> 1000)[token]

\* results[key] = value
Put(results, key, value) ==
    [k \in DOMAIN results \cup {key} |-> IF k = key THEN value ELSE results[k]]

\* the body of the loop over the lines (utils.py:139-150); line.split()[n]
\* is token n + 1
ParseLineNoMeanTest(results, line) ==
    IF Contains(line, LabelRps)
    THEN Put(results, "requests_per_second", float(line[4]))
    ELSE IF Contains(line, LabelTime)
    THEN Put(results, "mean_response_time", float(line[4]))
    ELSE IF Contains(line, LabelFailed)
    THEN Put(results, "failed_requests", int(line[3]))
    ELSE IF Contains(line, LabelTaken)
    THEN Put(results, "total_time", float(line[5]))
    ELSE IF Contains(line, LabelRate)
    THEN Put(results, "transfer_rate", float(line[3]))
    ELSE results
ParseLine(results, line) ==
    IF Contains(line, LabelRps)
    THEN Put(results, "requests_per_second", float(line[4]))
    ELSE IF Contains(line, LabelTime) /\ Contains(line, LabelMean)
    THEN Put(results, "mean_response_time", float(line[4]))
    ELSE IF Contains(line, LabelFailed)
    THEN Put(results, "failed_requests", int(line[3]))
    ELSE IF Contains(line, LabelTaken)
    THEN Put(results, "total_time", float(line[5]))
    ELSE IF Contains(line, LabelRate)
    THEN Put(results, "transfer_rate", float(line[3]))
    ELSE results

\* parse_ab_output (utils.py:133-152): the lines in order, from an empty dict
RECURSIVE parse_ab_output(_)
parse_ab_output(output) ==
    IF output = <<>> THEN [k \in {} |-> 0]
    ELSE ParseLine(parse_ab_output(SubSeq(output, 1, Len(output) - 1)),
                   output[Len(output)])

\* lines with a label of the parser whose value is not where the parser
\* reads it: the line ends after the label, or the unit stands in its place
MalformedLines ==
    {<<"Requests", "per", "second:">>,
     <<"Requests", "per", "second:", "[#/sec]", "(mean)">>,
     <<"Time", "per", "request:", "[ms]", "(mean)">>,
     <<"Failed", "requests:">>,
     <<"Time", "taken", "for", "tests:", "n/a", "seconds">>,
     <<"Transfer", "rate:">>}

\* the tokens of the reports that float() and int() convert
FloatTokens == {"125.50", "80.25", "8.02", "7.97", "512.00"}
IntTokens == {"0", "40", "1000"}

\* what float(line.split()[n - 1]) and int(line.split()[n - 1]) raise
FloatRaises(line, n) ==
    IF n > Len(line) THEN "IndexError"
    ELSE IF line[n] \notin FloatTokens THEN "ValueError" ELSE "none"
IntRaises(line, n) ==
    IF n > Len(line) THEN "IndexError"
    ELSE IF line[n] \notin IntTokens THEN "ValueError" ELSE "none"

\* the exception the body of the loop raises for one line (utils.py:139-150)
LineRaises(line) ==
    IF Contains(line, LabelRps) THEN FloatRaises(line, 4)
    ELSE IF Contains(line, LabelTime) /\ Contains(line, LabelMean)
    THEN FloatRaises(line, 4)
    ELSE IF Contains(line, LabelFailed) THEN IntRaises(line, 3)
    ELSE IF Contains(line, LabelTaken) THEN FloatRaises(line, 5)
    ELSE IF Contains(line, LabelRate) THEN FloatRaises(line, 3)
    ELSE "none"

\* the exception parse_ab_output(output) ends with: that of the first line
\* that raises one
RECURSIVE ParseRaises(_)
ParseRaises(output) ==
    IF output = <<>> THEN "none"
    ELSE IF LineRaises(output[1]) # "none" THEN LineRaises(output[1])
    ELSE ParseRaises(SubSeq(output, 2, Len(output)))

\* what the try block of run_apache_bench (utils.py:109-125) raises
\* when the tool ends with outcome and has printed output
TryRaises(outcome, output) ==
    CASE outcome = "timeout" -> "TimeoutExpired"
      [] outcome = "ioerror" -> "OSError"
      [] outcome = "nonzero" -> "none"
      [] OTHER -> ParseRaises(output)

\* the classes "except Exception" catches (utils.py:127-130)
Exceptions == {"TimeoutExpired", "OSError", "IndexError", "ValueError"}

ErrorResults(message) == [error |-> message]

\* run_apache_bench with a parser that leaves out the metric of a line it
\* cannot read
run_apache_bench_skipping(outcome, output) ==
    LET readable == SelectSeq(output, LAMBDA line : LineRaises(line) = "none")
    IN  IF outcome = "ok"
        THEN [raised |-> FALSE, success |-> TRUE, results |-> parse_ab_output(readable)]
        ELSE [raised |-> FALSE, success |-> FALSE,
              results |-> ErrorResults("Apache Bench failed")]

\* run_apache_bench (utils.py:109-130): what it returns, and whether an
\* exception leaves it
run_apache_bench(outcome, output) ==
    LET exc == TryRaises(outcome, output)
    IN  IF exc = "TimeoutExpired"
        THEN [raised |-> FALSE, success |-> FALSE,
              results |-> ErrorResults("Apache Bench test timed out")]
        ELSE IF exc # "none"
        THEN [raised |-> exc \notin Exceptions, success |-> FALSE,
              results |-> ErrorResults("Failed to run Apache Bench")]
        ELSE IF outcome = "nonzero"
        THEN [raised |-> FALSE, success |-> FALSE,
              results |-> ErrorResults("Apache Bench failed with code")]
        ELSE [raised |-> FALSE, success |-> TRUE, results |-> parse_ab_output(output)]

\* ab_results.get(key, default)
Get(ab_results, key, default) ==
    IF key \in DOMAIN ab_results THEN ab_results[key] ELSE default

\* core.py:326-328: the failed requests of the report (0 when it has none),
\* and the share of requests that did not fail, in percent, as the exact
\* quotient num / den
FailedRequestsDefaultAll(ab_results, total) ==
    Get(ab_results, "failed_requests", total)
FailedRequests(ab_results, total) ==
    Get(ab_results, "failed_requests", 0)
SuccessRate(total, failed_requests) ==
    [num |-> (total - failed_requests) * 100, den |-> total]

(***************************************************************************)
(* The capabilities document and its parser (capabilities.py:71-230)       *)
(***************************************************************************)
\* A document is the sequence of its elements in document order. An element
\* has its tag as <<namespace, local name>> (namespace "wms" is
\* NAMESPACES['wms'], "" is no namespace, "o" is some other namespace), the
\* index of its parent (0 for the root) and its text.
Elem(ns, local, parent, text) ==
    [tag |-> <<ns, local>>, parent |-> parent, text |-> text]

\* what the parts of a layer are written as in the documents below
NoChild == "none"

\* the layers the documents are made of: the namespace and local name of the
\* element (its Name and Title children are in the same namespace), the text
\* of its Name and Title children (NoChild when there is none), the
\* namespace of its Keyword and of its SRS/CRS child and of its
\* EX_GeographicBoundingBox (NoChild when there is none)
LayerParts(ns, local, name, title, keyword, srs, bbox) ==
    [ns |-> ns, local |-> local, name |-> name, title |-> title,
     keyword |-> keyword, srs |-> srs, bbox |-> bbox]

LayerKinds ==
    {LayerParts("wms", "Layer", "a", "A", "wms", "wms", "wms"),
     LayerParts("wms", "Layer", "b", NoChild, NoChild, NoChild, "wms"),
     LayerParts("wms", "Layer", NoChild, "A", NoChild, NoChild, "wms"),
     LayerParts("wms", "Layer", "", "A", NoChild, NoChild, "wms"),
     LayerParts("wms", "Layer", " ", "A", NoChild, NoChild, "wms"),
     LayerParts("wms", "Layer", "c", "A", NoChild, NoChild, NoChild),
     LayerParts("", "Layer", "p", "A", "", "", ""),
     LayerParts("", "Layer", "q", NoChild, "", "", "wms"),
     LayerParts("o", "Layer", "a", "A", NoChild, NoChild, NoChild),
     LayerParts("", "FeatureLayer", "f", "A", NoChild, NoChild, "wms")}

\* the elements of one layer under parent, the layer element being element
\* number at: the layer, then its children in this order
LayerElements(parts, parent, at) ==
    <<Elem(parts.ns, parts.local, parent, "")>>
    \o (IF parts.name = NoChild THEN <<>>
        ELSE <<Elem(parts.ns, "Name", at, parts.name)>>)
    \o (IF parts.title = NoChild THEN <<>>
        ELSE <<Elem(parts.ns, "Title", at, parts.title)>>)
    \o (IF parts.keyword = NoChild THEN <<>>
        ELSE <<Elem(parts.keyword, "Keyword", at, "k")>>)
    \o (IF parts.srs = NoChild THEN <<>>
        ELSE <<Elem(parts.srs, IF parts.srs = "wms" THEN "CRS" ELSE "SRS", at,
                    "EPSG:4326")>>)
    \o (IF parts.bbox = NoChild THEN <<>>
        ELSE <<Elem(parts.bbox, "EX_GeographicBoundingBox", at, "bounds")>>)

\* the document with the layers of kinds under parent appended
RECURSIVE WithLayers(_, _, _)
WithLayers(doc, parent, kinds) ==
    IF kinds = <<>> THEN doc
    ELSE WithLayers(doc \o LayerElements(kinds[1], parent, Len(doc) + 1),
                    parent, SubSeq(kinds, 2, Len(kinds)))

\* a capabilities document: the root, a Capability element and under it the
\* layers, either directly or inside one unnamed group layer of namespace
\* group
Document(group, kinds) ==
    LET ns   == IF group = NoChild THEN "" ELSE group
        head == <<Elem(ns, "WMS_Capabilities", 0, ""), Elem(ns, "Capability", 1, "")>>
    IN  IF group = NoChild
        THEN WithLayers(head, 2, kinds)
        ELSE WithLayers(Append(head, Elem(ns, "Layer", 2, "")), 3, kinds)

Documents ==
    {Document(group, kinds) :
        group \in {NoChild, "wms", ""}, kinds \in BoundedSeq(LayerKinds, MaxDocLayers)}

\* the elements of doc by number, in document order
Elements(doc) == [k \in 1..Len(doc) |-> k]

\* "for child in elem"
ChildrenOf(doc, i) == SelectSeq(Elements(doc), LAMBDA j : doc[j].parent = i)

RECURSIVE IsUnder(_, _, _)
IsUnder(doc, j, i) ==
    /\ doc[j].parent # 0
    /\ (doc[j].parent = i \/ IsUnder(doc, doc[j].parent, i))

\* elem.iter() without elem itself
DescendantsOf(doc, i) == SelectSeq(Elements(doc), LAMBDA j : IsUnder(doc, j, i))

\* elem.findall('.//a', NAMESPACES)
FindAll(doc, i, a) == SelectSeq(DescendantsOf(doc, i), LAMBDA j : doc[j].tag = a)

\* elem.findall('.//a/b', NAMESPACES): the b children of each a, a by a
RECURSIVE ChildrenOfEach(_, _, _)
ChildrenOfEach(doc, parents, b) ==
    IF parents = <<>> THEN <<>>
    ELSE SelectSeq(ChildrenOf(doc, parents[1]), LAMBDA j : doc[j].tag = b)
         \o ChildrenOfEach(doc, SubSeq(parents, 2, Len(parents)), b)
FindAllNested(doc, i, a, b) == ChildrenOfEach(doc, FindAll(doc, i, a), b)

\* elem.findall('.//a[b]', NAMESPACES)
FindAllHaving(doc, i, a, b) ==
    SelectSeq(FindAll(doc, i, a),
              LAMBDA j : \E c \in Range(ChildrenOf(doc, j)) : doc[c].tag = b)

\* tag.endswith('Layer'), tag.endswith('Name') for the local names in use
EndsWithLayer(tag) == tag[2] \in {"Layer", "FeatureLayer"}
EndsWithName(tag) == tag[2] = "Name"

\* layer_xpaths (capabilities.py:77-82) applied to the root
LayerQuery(doc, n) ==
    CASE n = 1 -> FindAllNested(doc, 1, <<"wms", "Layer">>, <<"wms", "Layer">>)
      [] n = 2 -> FindAllNested(doc, 1, <<"", "Layer">>, <<"", "Layer">>)
      [] n = 3 -> FindAllHaving(doc, 1, <<"wms", "Layer">>, <<"wms", "Name">>)
      [] OTHER -> FindAllHaving(doc, 1, <<"", "Layer">>, <<"", "Name">>)
LayerQueries == 4

\* capabilities.py:94-99: every element, the root included
ScanForLayers(doc) ==
    SelectSeq(Elements(doc),
              LAMBDA j : /\ EndsWithLayer(doc[j].tag)
                         /\ \E c \in Range(ChildrenOf(doc, j)) : EndsWithName(doc[c].tag))

\* capabilities.py:84-92: the queries in order, up to the first with matches
RECURSIVE FirstMatchNoBreak(_, _)
FirstMatchNoBreak(doc, n) ==
    IF n > LayerQueries THEN <<>>
    ELSE LET later == FirstMatchNoBreak(doc, n + 1)
         IN  IF later # <<>> THEN later ELSE LayerQuery(doc, n)
RECURSIVE FirstMatch(_, _)
FirstMatch(doc, n) ==
    IF n > LayerQueries THEN <<>>
    ELSE IF LayerQuery(doc, n) # <<>> THEN LayerQuery(doc, n)
    ELSE FirstMatch(doc, n + 1)

\* capabilities.py:84-99: layer_elements
LayerCandidates(doc) ==
    IF FirstMatch(doc, 1) # <<>> THEN FirstMatch(doc, 1) ELSE ScanForLayers(doc)

\* parent.find(tag_name, NAMESPACES) for a child's tag: the first child with
\* that tag, 0 for None. parent.find(tag_name) without the prefix map finds
\* the same child for a tag without prefix, and none for 'wms:...', which it
\* compares with the children's tags as it is written.
FindChild(doc, i, tag) ==
    LET found == SelectSeq(ChildrenOf(doc, i), LAMBDA j : doc[j].tag = tag)
    IN  IF found = <<>> THEN 0 ELSE found[1]

\* _find_child(parent, [plain, 'wms:' + plain]) (capabilities.py:164-172)
find_child(doc, i, local) ==
    IF FindChild(doc, i, <<"", local>>) # 0 THEN FindChild(doc, i, <<"", local>>)
    ELSE FindChild(doc, i, <<"wms", local>>)

\* text.strip()
strip(text) == IF text = " " THEN "" ELSE text

\* the texts of the elements, those without text left out
TextsOf(doc, elems) ==
    LET with_text == SelectSeq(elems, LAMBDA j : doc[j].text # "")
    IN  [k \in 1..Len(with_text) |-> strip(doc[with_text[k]].text)]

\* bbox_xpaths (capabilities.py:178-185); the [@SRS="EPSG:4326"] test of the
\* last two is left out, no document having a BoundingBox element
BboxXpaths == <<<<"wms", "EX_GeographicBoundingBox">>, <<"", "EX_GeographicBoundingBox">>,
                <<"wms", "LatLonBoundingBox">>, <<"", "LatLonBoundingBox">>,
                <<"wms", "BoundingBox">>, <<"", "BoundingBox">> >>

\* _parse_bbox (capabilities.py:174-217). layer_elem.find(xpath, NAMESPACES)
\* is tried first; when it finds nothing, layer_elem.find(xpath) is called
\* without the prefix map, which raises SyntaxError for a path with the wms
\* prefix (the call is outside the try of lines 193-215). A box element of
\* the documents holds its four bounds.
RECURSIVE parse_bbox(_, _, _)
parse_bbox(doc, i, n) ==
    IF n > Len(BboxXpaths) THEN "None"
    ELSE LET found == FindAll(doc, i, BboxXpaths[n])
         IN  IF found # <<>> THEN "box"
             ELSE IF BboxXpaths[n][1] = "wms" THEN "raise"
             ELSE parse_bbox(doc, i, n + 1)

NoLayerInfo == [name |-> "", title |-> "", keywords |-> <<>>, srs_list |-> <<>>,
                bbox |-> "None", parsed |-> FALSE]

\* _parse_single_layer (capabilities.py:108-162); parsed is false for the
\* None it returns without a name or after an exception
parse_single_layer(doc, i) ==
    LET name_elem  == find_child(doc, i, "Name")
        title_elem == find_child(doc, i, "Title")
        name       == strip(doc[name_elem].text)
        bbox       == parse_bbox(doc, i, 1)
    IN  IF name_elem = 0 \/ doc[name_elem].text = "" THEN NoLayerInfo
        ELSE IF bbox = "raise" THEN NoLayerInfo
        ELSE [name     |-> name,
              title    |-> IF title_elem # 0 /\ doc[title_elem].text # ""
                           THEN strip(doc[title_elem].text) ELSE name,
              keywords |-> TextsOf(doc, FindAll(doc, i, <<"wms", "Keyword">>))
                           \o TextsOf(doc, FindAll(doc, i, <<"", "Keyword">>)),
              srs_list |-> TextsOf(doc, FindAll(doc, i, <<"wms", "SRS">>))
                           \o TextsOf(doc, FindAll(doc, i, <<"wms", "CRS">>)),
              bbox     |-> bbox,
              parsed   |-> TRUE]

\* capabilities.py:101-106: the layers of the candidates, in their order
parse_layers(doc) ==
    LET infos == [k \in 1..Len(LayerCandidates(doc)) |->
                     parse_single_layer(doc, LayerCandidates(doc)[k])]
    IN  SelectSeq(infos, LAMBDA info : info.parsed /\ info.name # "")

(***************************************************************************)
(* Functions called on their own                                           *)
(***************************************************************************)
\* the reports handed to the parser: any lines of the tool in any order
Reports == BoundedSeq(ReportLines, MaxReportLines)
\* the -n values of a single test
UnitTotals == {50, 1000}

\* nothing has been called yet; each behaviour makes one call
UnitInit == Start("unit")

\* parse_ab_output(output)
ParseAbOutput ==
    /\ pc = "unit"
    /\ unit_op = "none"
    /\ \E output \in Reports :
           /\ unit_op' = "parse"
           /\ unit_in' = [output |-> output]
           /\ unit_out' = parse_ab_output(output)
    /\ UNCHANGED <<tester, outside, files, clock, pc, sweeps, sweepLocals, store_in,
                   store_calls>>

\* run_single_test (core.py:313-344) when the load tool has exited with code
\* 0 and printed output: the counts of the result that is built
CompleteTest ==
    /\ pc = "unit"
    /\ unit_op = "none"
    /\ \E output \in Reports, total \in UnitTotals :
           LET ab_results == parse_ab_output(output)
               failed     == FailedRequests(ab_results, total)
           IN  /\ unit_op' = "result"
               /\ unit_in' = [output |-> output, total_requests |-> total]
               /\ unit_out' = [failed_requests |-> failed,
                               success_rate |-> SuccessRate(total, failed)]
    /\ UNCHANGED <<tester, outside, files, clock, pc, sweeps, sweepLocals, store_in,
                   store_calls>>

\* what the load tool may print: its lines and the malformed ones
AbReports == BoundedSeq(ReportLines \cup MalformedLines, MaxReportLines)

\* run_single_test (core.py:313-344) around run_apache_bench: None when the
\* adapter reports a failure, the counts of the result otherwise
RunApacheBench ==
    /\ pc = "unit"
    /\ unit_op = "none"
    /\ \E outcome \in AbOutcomes, output \in AbReports, total \in UnitTotals :
           LET ran    == run_apache_bench(outcome, output)
               failed == FailedRequests(ran.results, total)
           IN  /\ unit_op' = "ab"
               /\ unit_in' = [outcome |-> outcome, output |-> output,
                              total_requests |-> total]
               /\ unit_out' = [raised |-> ran.raised,
                               success |-> ran.success,
                               ab_results |-> ran.results,
                               result |-> IF ~ran.success THEN "None"
                                          ELSE [failed_requests |-> failed,
                                                success_rate |-> SuccessRate(total, failed)]]
    /\ UNCHANGED <<tester, outside, files, clock, pc, sweeps, sweepLocals, store_in,
                   store_calls>>

\* tester.test_connectivity(layer_name) on a tester with or without a URL
TestConnectivity ==
    /\ pc = "unit"
    /\ unit_op = "none"
    /\ \E status \in ProbeStatuses :
           /\ unit_op' = "probe"
           /\ unit_in' = [url |-> server_url, status |-> status]
           /\ unit_out' = test_connectivity(server_url, status)
    /\ UNCHANGED <<tester, outside, files, clock, pc, sweeps, sweepLocals, store_in,
                   store_calls>>

\* CapabilitiesParser(base_url).test_layer_access(layer_name)
TestLayerAccess ==
    /\ pc = "unit"
    /\ unit_op = "none"
    /\ server_url # ""
    /\ \E status \in ProbeStatuses :
           /\ unit_op' = "layer_access"
           /\ unit_in' = [url |-> server_url, status |-> status]
           /\ unit_out' = test_layer_access(status)
    /\ UNCHANGED <<tester, outside, files, clock, pc, sweeps, sweepLocals, store_in,
                   store_calls>>

\* CapabilitiesParser(base_url).parse_layers(capabilities_root)
ParseLayers ==
    /\ pc = "unit"
    /\ unit_op = "none"
    /\ \E doc \in Documents :
           /\ unit_op' = "layers"
           /\ unit_in' = [doc |-> doc]
           /\ unit_out' = [candidates |-> LayerCandidates(doc),
                           infos |-> [k \in 1..Len(LayerCandidates(doc)) |->
                                         parse_single_layer(doc, LayerCandidates(doc)[k])],
                           layers |-> parse_layers(doc)]
    /\ UNCHANGED <<tester, outside, files, clock, pc, sweeps, sweepLocals, store_in,
                   store_calls>>

UnitNext ==
    \/ ParseLayers
    \/ ParseAbOutput
    \/ CompleteTest
    \/ RunApacheBench
    \/ TestConnectivity
    \/ TestLayerAccess

UnitSpec == UnitInit /\ [][UnitNext]_vars

(***************************************************************************)
(* The single-layer session of the menu (ui.py:704-860)                    *)
(***************************************************************************)
\* sorted(list(set(...))) of parse_concurrency_list (test_config.py:113)
\* and sorted(...) of validate_concurrency_list (test_config.py:120-121)
RECURSIVE SortedSeq(_)
SortedSeq(S) ==
    IF S = {} THEN <<>>
    ELSE LET least == CHOOSE x \in S : \A y \in S : x <= y
         IN  <<least>> \o SortedSeq(S \ {least})

parse_concurrency_list(values) == SortedSeq({v \in Range(values) : v > 0})
validate_concurrency_list(concurrency_list, total) ==
    SortedSeq({c \in Range(concurrency_list) : c <= total})

\* ui.py:845-851
SingleLayerConfig ==
    [total_requests     |-> total_requests,
     concurrency_levels |-> concurrency_levels,
     layers_tested      |-> <<layers[li]>>,
     server             |-> IF server_url = "" THEN "unknown" ELSE server_url,
     session_type       |-> "single_layer"]

\* ui.py:731-811: a layer is chosen, the request count and the levels are
\* entered; the session starts when a valid level is left
StartSingleSession ==
    /\ pc = "idle"
    /\ sweeps < MaxSweeps
    /\ layers # <<>>
    /\ \E choice_index \in 1..Len(layers), total \in TotalValues,
          values \in BoundedSeq(LevelValues, MaxRequested) :
           LET concurrency_list  == parse_concurrency_list(values)
               valid_concurrency == validate_concurrency_list(concurrency_list, total)
           IN  /\ valid_concurrency # <<>>
               /\ li' = choice_index
               /\ requested' = concurrency_list
               /\ total_requests' = total
               /\ concurrency_levels' = valid_concurrency
               /\ removed_count' = Len(concurrency_list) - Len(valid_concurrency)
    /\ sweeps' = sweeps + 1
    /\ all_results' = <<>>
    /\ ci' = 1
    /\ pc' = "single_test"
    /\ UNCHANGED <<tester, unit, outside, files, clock, timestamp, calls, store_in, store_calls>>

\* ui.py:818-830 with run_single_test (core.py:295-349) called without a
\* timestamp: the test takes its own from the clock (core.py:304-305)
SingleTest ==
    /\ pc = "single_test"
    /\ \E outcome \in AbOutcomes :
        LET layer_key   == layers[li]
            concurrency == concurrency_levels[ci]
            own_stamp   == format_timestamp(clock)
            test_id     == TestId(layer_key, concurrency, own_stamp)
            success     == AbSuccess(outcome)
            result      == BenchmarkResult(layer_key, concurrency,
                                           total_requests, own_stamp)
            logged      == IF AbWritesLog(outcome)
                           THEN WriteFile(files, ArtifactPath(test_id, "log"),
                                          [outcome |-> outcome])
                           ELSE files
        IN  /\ calls' = Append(calls, AbCall(layer_key, concurrency, total_requests,
                                             test_id, success))
            /\ files' = IF success
                        THEN WriteFile(logged, ArtifactPath(test_id, "json"),
                                       TestMetadata(result))
                        ELSE logged
            /\ all_results' = IF success THEN Accumulate(all_results, result)
                              ELSE all_results
    /\ IF ci < Len(concurrency_levels)
       THEN ci' = ci + 1 /\ pc' = "single_test"
       ELSE ci' = 0 /\ pc' = "single_store"
    /\ UNCHANGED <<tester, unit, outside, clock, sweeps, requested, total_requests,
                   concurrency_levels, removed_count, timestamp, li,
                   store_in, store_calls>>

\* ui.py:838-852: with more than one result, and the report asked for, the
\* session is consolidated under a timestamp taken now
SingleConsolidate ==
    /\ pc = "single_store"
    /\ Len(all_results) > 1
    /\ LET session_timestamp == format_timestamp(clock)
       IN  /\ \E order \in Orderings(TargetsOf(all_results, SingleLayerConfig)) :
                  files' = ConsolidateInto(files, SERVICE_TYPE, all_results,
                                           session_timestamp, SingleLayerConfig, order)
           /\ store_in' = [results |-> all_results, timestamp |-> session_timestamp,
                           service_type |-> SERVICE_TYPE]
           /\ timestamp' = session_timestamp
    /\ pc' = "single_done"
    /\ UNCHANGED <<tester, unit, outside, clock, sweeps, requested, total_requests,
                   concurrency_levels, removed_count, all_results, li, ci, calls,
                   store_calls>>

\* ui.py:838: one result at most, or no report asked for
SingleNoReport ==
    /\ pc = "single_store"
    /\ pc' = "single_done"
    /\ UNCHANGED <<tester, unit, outside, files, clock, sweeps, sweepLocals, store_in, store_calls>>

\* ui.py:860: back to the menu
SingleReturn ==
    /\ pc = "single_done"
    /\ pc' = "idle"
    /\ requested' = <<>>
    /\ total_requests' = 0
    /\ concurrency_levels' = <<>>
    /\ removed_count' = 0
    /\ timestamp' = -1
    /\ li' = 0
    /\ ci' = 0
    /\ calls' = <<>>
    /\ all_results' = <<>>
    /\ store_in' = NoArgs
    /\ UNCHANGED <<tester, unit, outside, files, clock, sweeps, store_calls>>

SessionNext ==
    \/ Tick
    \/ DiscoverLayers
    \/ StartSingleSession
    \/ SingleTest
    \/ SingleConsolidate
    \/ SingleNoReport
    \/ SingleReturn

SessionSpec == Init /\ [][SessionNext]_vars

(***************************************************************************)
(* One comprehensive sweep with the load tool as a child process           *)
(***************************************************************************)
\* the first call of run_comprehensive_test on the tester
FirstSweep ==
    /\ sweeps = 0
    /\ (StartSweep \/ StartSweepDefault)

\* subprocess.run(cmd, capture_output=True, text=True, timeout=300)
\* (utils.py:111) returns or raises only when the child is gone: it waits
\* for the exit, and after the timeout it kills the child and waits for it
ChildrenAfterRunDetached(children, test_id, outcome) ==
    IF outcome = "timeout" THEN children ELSE children \ {test_id}
ChildrenAfterRun(children, test_id, outcome) == children \ {test_id}

\* run_single_test up to utils.py:111: the load tool is started for
\* (layers[li], concurrency_levels[ci])
LaunchAb ==
    /\ pc = "test"
    /\ running' = running \cup {TestId(layers[li], concurrency_levels[ci], timestamp)}
    /\ pc' = "ab"
    /\ UNCHANGED <<tester, unit, other, files, clock, sweeps, sweepLocals, store_in,
                   store_calls>>

\* subprocess.run comes back and run_single_test goes on to its return
AbReturns ==
    /\ pc = "ab"
    /\ \E outcome \in AbOutcomes :
           /\ running' = ChildrenAfterRun(running,
                              TestId(layers[li], concurrency_levels[ci], timestamp),
                              outcome)
           /\ FinishTest(outcome)
    /\ UNCHANGED <<tester, unit, other, clock, sweeps, requested, total_requests,
                   concurrency_levels, removed_count, timestamp,
                   store_in, store_calls>>

ProcessNext ==
    \/ Tick
    \/ DiscoverLayers
    \/ FirstSweep
    \/ ClearResults
    \/ Stamp
    \/ Probe
    \/ LaunchAb
    \/ AbReturns
    \/ ConsolidateSweep
    \/ SkipConsolidate
    \/ Return

ProcessSpec == Init /\ [][ProcessNext]_vars

(***************************************************************************)
(* Two orchestrator processes on one result directory                      *)
(***************************************************************************)
\* the concurrency list both processes are started with
SharedLevels == <<10>>

\* the first process discovers the layers of the server, once, before the
\* second process starts
SharedDiscover ==
    /\ discovered = "none"
    /\ other.pc = "idle"
    /\ DiscoverLayers

\* the first process calls run_comprehensive_test(total_requests, [10])
SharedSweep ==
    /\ sweeps = 0
    /\ discovered = "true"
    /\ \E total \in TotalValues : Plan(total, SharedLevels)

\* where the second orchestrator's layer loop goes from layer index i
OtherNextLayerPc(i) == IF i <= Len(other.layers) THEN "probe" ELSE "consolidate"

\* the second orchestrator's test configuration (core.py:474-479)
OtherSweepConfig ==
    [total_requests     |-> other.total_requests,
     concurrency_levels |-> other.concurrency_levels,
     layers_tested      |-> other.layers,
     server             |-> IF server_url = "" THEN "unknown" ELSE server_url]

\* the second process calls run_comprehensive_test(total_requests, [10])
\* (core.py:392-407) on a tester that has discovered the first layer of the
\* same server
OtherStart ==
    /\ other.pc = "idle"
    /\ discovered = "true"
    /\ \E total \in TotalValues :
           other' = [other EXCEPT
               !.pc = "clear",
               !.layers = <<layers[1]>>,
               !.total_requests = total,
               !.concurrency_levels = EnsureLevels(TrimLevels(SharedLevels, total),
                                                   total)]
    /\ UNCHANGED <<tester, unit, running, files, clock, pc, sweeps, sweepLocals,
                   store_in, store_calls>>

\* core.py:410
OtherClearResults ==
    /\ other.pc = "clear"
    /\ files' = ClearedDir(files)
    /\ other' = [other EXCEPT !.pc = "stamp"]
    /\ UNCHANGED <<tester, unit, running, clock, pc, sweeps, sweepLocals, store_in,
                   store_calls>>

\* core.py:412-414
OtherStamp ==
    /\ other.pc = "stamp"
    /\ other' = [other EXCEPT
           !.timestamp = format_timestamp(clock),
           !.all_results = FreshResults(other.all_results),
           !.li = 1,
           !.ci = 0,
           !.pc = OtherNextLayerPc(1)]
    /\ UNCHANGED <<tester, unit, running, files, clock, pc, sweeps, sweepLocals,
                   store_in, store_calls>>

\* core.py:429-446
OtherProbe ==
    /\ other.pc = "probe"
    /\ \E status \in ProbeStatuses :
           IF AfterProbe(test_connectivity(server_url, status).accessible) = "test"
           THEN other' = [other EXCEPT !.pc = "test", !.ci = 1]
           ELSE other' = [other EXCEPT !.pc = OtherNextLayerPc(other.li + 1),
                                       !.li = other.li + 1, !.ci = 0]
    /\ UNCHANGED <<tester, unit, running, files, clock, pc, sweeps, sweepLocals,
                   store_in, store_calls>>

\* core.py:448-469 with run_single_test (core.py:295-349) inlined
OtherRunSingleTest ==
    /\ other.pc = "test"
    /\ \E outcome \in AbOutcomes :
        LET layer_key   == other.layers[other.li]
            concurrency == other.concurrency_levels[other.ci]
            test_id     == TestId(layer_key, concurrency, other.timestamp)
            success     == AbSuccess(outcome)
            result      == BenchmarkResult(layer_key, concurrency,
                                           other.total_requests, other.timestamp)
            logged      == IF AbWritesLog(outcome)
                           THEN WriteFile(files, ArtifactPath(test_id, "log"),
                                          [outcome |-> outcome])
                           ELSE files
            more        == other.ci < Len(other.concurrency_levels)
        IN  /\ files' = IF success
                        THEN WriteFile(logged, ArtifactPath(test_id, "json"),
                                       TestMetadata(result))
                        ELSE logged
            /\ other' = [other EXCEPT
                   !.all_results = IF success THEN Accumulate(other.all_results, result)
                                   ELSE other.all_results,
                   !.ci = IF more THEN other.ci + 1 ELSE 0,
                   !.li = IF more THEN other.li ELSE other.li + 1,
                   !.pc = IF more THEN "test" ELSE OtherNextLayerPc(other.li + 1)]
    /\ UNCHANGED <<tester, unit, running, clock, pc, sweeps, sweepLocals, store_in,
                   store_calls>>

\* core.py:471-482: the record is written when there are results, and the
\* call returns
OtherConsolidate ==
    /\ other.pc = "consolidate"
    /\ IF other.all_results # <<>>
       THEN \E order \in Orderings(TargetsOf(other.all_results, OtherSweepConfig)) :
                files' = ConsolidateInto(files, SERVICE_TYPE, other.all_results,
                                         other.timestamp, OtherSweepConfig, order)
       ELSE files' = files
    /\ other' = [other EXCEPT !.pc = "done"]
    /\ UNCHANGED <<tester, unit, running, clock, pc, sweeps, sweepLocals, store_in,
                   store_calls>>

\* the first process runs one sweep and stays at its end
SharedNext ==
    \/ Tick
    \/ SharedDiscover
    \/ SharedSweep
    \/ ClearResults
    \/ Stamp
    \/ Probe
    \/ RunSingleTest
    \/ ConsolidateSweep
    \/ SkipConsolidate
    \/ OtherStart
    \/ OtherClearResults
    \/ OtherStamp
    \/ OtherProbe
    \/ OtherRunSingleTest
    \/ OtherConsolidate

SharedSpec == Init /\ [][SharedNext]_vars

(***************************************************************************)
(* One comprehensive sweep, run to its end                                 *)
(***************************************************************************)
\* the steps of the body of run_comprehensive_test
SweepStep ==
    \/ ClearResults
    \/ Stamp
    \/ Probe
    \/ RunSingleTest
    \/ ConsolidateSweep
    \/ SkipConsolidate
    \/ Return

OneSweepNext ==
    \/ Tick
    \/ DiscoverLayers
    \/ FirstSweep
    \/ SweepStep

\* the body is sequential code: once a statement can run it does, and
\* every wait in it ends (the probe after REQUEST_TIMEOUT, the load tool
\* after timeout=300)
OneSweepSpec == Init /\ [][OneSweepNext]_vars /\ WF_vars(SweepStep)

Next ==
    \/ Tick
    \/ DiscoverLayers
    \/ StartSweep
    \/ StartSweepDefault
    \/ ClearResults
    \/ Stamp
    \/ Probe
    \/ RunSingleTest
    \/ ConsolidateSweep
    \/ SkipConsolidate
    \/ Return

Spec == Init /\ [][Next]_vars

(***************************************************************************)
(* Properties                                                              *)
(***************************************************************************)
\* the sweep has been planned and has not returned yet
InSweep == pc \in {"clear", "stamp", "probe", "test", "consolidate", "done"}

\* the sweep is about to return, having written its consolidated record
SweepRecorded == pc = "done" /\ all_results # <<>>

\* the consolidated record of the current sweep, read back from its file
SweepRecord == Reload(files, ConsolidatedTarget(SERVICE_TYPE, timestamp))

\* the load-tool runs of the current sweep, in order
AbCalls == SelectSeq(calls, LAMBDA c : c.kind = "ab")
\* the layers of the current sweep whose probe succeeded, in discovery order
AccessibleLayers ==
    SelectSeq(layers, LAMBDA l :
        \E i \in 1..Len(calls) :
            calls[i].kind = "probe" /\ calls[i].layer = l /\ calls[i].ok)
\* the calls of the current sweep that concern layer l, in order
CallsOfLayer(l) == SelectSeq(calls, LAMBDA c : c.layer = l)

\* C1: every result in the consolidated record a sweep writes was produced
\* by a successful load-tool run of that same sweep (same layer, level,
\* request count and test id): nothing of an earlier sweep is in it.
C1_SessionIsolation ==
    SweepRecorded =>
        \A k \in 1..Len(SweepRecord.results) :
            \E i \in 1..Len(calls) :
                /\ calls[i].kind = "ab"
                /\ calls[i].ok
                /\ calls[i].layer = SweepRecord.results[k].target
                /\ calls[i].concurrency = SweepRecord.results[k].concurrency_level
                /\ calls[i].total = SweepRecord.results[k].total_requests
                /\ calls[i].test_id = SweepRecord.results[k].test_id

\* a second sweep of the same orchestrator has written its record, one
\* second after the session before it
C1_Witness ==
    /\ SweepRecorded
    /\ sweeps = 2
    /\ timestamp = 1
    /\ Len(SweepRecord.results) >= 2

\* C3: when the sweep is done, every discovered layer was probed exactly
\* once; a layer whose probe failed has no load-tool run and no result; every
\* layer whose probe succeeded was run at every planned level, in plan order.
C3_PartialFailure ==
    pc = "done" =>
        \A n \in 1..Len(layers) :
            LET cl == CallsOfLayer(layers[n])
            IN  /\ Len(cl) >= 1
                /\ cl[1].kind = "probe"
                /\ \A j \in 2..Len(cl) : cl[j].kind = "ab"
                /\ ~cl[1].ok =>
                       /\ Len(cl) = 1
                       /\ \A k \in 1..Len(all_results) :
                              all_results[k].target # layers[n]
                /\ cl[1].ok =>
                       /\ Len(cl) = 1 + Len(concurrency_levels)
                       /\ \A j \in 1..Len(concurrency_levels) :
                              cl[1 + j].concurrency = concurrency_levels[j]

\* a finished sweep whose first layer was inaccessible and whose second
\* layer was tested and has a result
C3_Witness ==
    /\ pc = "done"
    /\ Len(layers) = 2
    /\ ~CallsOfLayer(layers[1])[1].ok
    /\ Len(CallsOfLayer(layers[2])) = 1 + Len(concurrency_levels)
    /\ \E k \in 1..Len(all_results) : all_results[k].target = layers[2]

\* the runs the plan asks for: accessible layers in discovery order, each
\* with the planned levels in plan order
PlannedRuns ==
    [k \in 1..(Len(AccessibleLayers) * Len(concurrency_levels)) |->
        <<AccessibleLayers[((k - 1) \div Len(concurrency_levels)) + 1],
          concurrency_levels[((k - 1) % Len(concurrency_levels)) + 1]>>]

\* when the sweep returns, the load tool was run once for every entry of the
\* plan (accessible layer, then level) in order, whatever failed before, and
\* the result list holds the results of the successful runs, in that order
ResultsFollowRuns ==
    pc = "done" =>
        LET ok == SelectSeq(AbCalls, LAMBDA c : c.ok)
        IN  /\ Len(AbCalls) = Len(PlannedRuns)
            /\ \A k \in 1..Len(AbCalls) :
                   <<AbCalls[k].layer, AbCalls[k].concurrency>> = PlannedRuns[k]
            /\ Len(all_results) = Len(ok)
            /\ \A k \in 1..Len(ok) :
                   /\ all_results[k].target = ok[k].layer
                   /\ all_results[k].concurrency = ok[k].concurrency
                   /\ all_results[k].test_id = ok[k].test_id

\* the number of results of the sweep for layer l at level c
ResultsOfPair(l, c) ==
    Cardinality({k \in 1..Len(all_results) :
                    all_results[k].target = l /\ all_results[k].concurrency = c})

\* C4: when the sweep returns, the result list holds exactly one result for
\* each (accessible layer, planned level) pair whose load-tool run succeeded
\* and none for a pair whose run failed, in layer-then-level order, and a
\* failed run stops neither the later levels nor the later layers.
C4_ResultsAreSuccessfulRuns ==
    /\ ResultsFollowRuns
    /\ pc = "done" =>
           \A n \in 1..Len(AccessibleLayers), j \in 1..Len(concurrency_levels) :
               ResultsOfPair(AccessibleLayers[n], concurrency_levels[j]) =
                   IF \E k \in 1..Len(AbCalls) :
                          /\ AbCalls[k].layer = AccessibleLayers[n]
                          /\ AbCalls[k].concurrency = concurrency_levels[j]
                          /\ AbCalls[k].ok
                   THEN 1 ELSE 0

\* the number of requested levels above the request count
Exceeding(levels, total) ==
    Cardinality({i \in 1..Len(levels) : levels[i] > total})

\* C5: every planned level, and so every level passed to the load tool, is
\* at most total_requests, and the reported number of trimmed levels is the
\* number of requested levels above total_requests.
C5_PlannerBound ==
    InSweep =>
        /\ \A j \in 1..Len(concurrency_levels) :
               concurrency_levels[j] <= total_requests
        /\ \A k \in 1..Len(AbCalls) : AbCalls[k].concurrency <= total_requests
        /\ removed_count = Exceeding(requested, total_requests)

\* a sweep that trimmed a level, kept another and has run the load tool
C5_Witness ==
    /\ pc = "done"
    /\ removed_count >= 1
    /\ Len(requested) > removed_count
    /\ Len(AbCalls) >= 1

\* C6: when the requested list is empty or wholly above total_requests, the
\* plan is the single level min(100, total_requests), and the sweep goes on
\* to run every accessible layer at that level.
C6_PlannerFallback ==
    (InSweep /\ Exceeding(requested, total_requests) = Len(requested)) =>
        /\ concurrency_levels = <<Min(FALLBACK_CONCURRENCY, total_requests)>>
        /\ pc = "done" =>
               /\ Len(AbCalls) = Len(AccessibleLayers)
               /\ \A k \in 1..Len(AbCalls) :
                      AbCalls[k].concurrency =
                          Min(FALLBACK_CONCURRENCY, total_requests)

\* a finished sweep whose only requested level was above a request count
\* below 100, and which ran the load tool at the fallback level
C6_Witness ==
    /\ pc = "done"
    /\ requested = <<100>>
    /\ total_requests = 50
    /\ Len(AbCalls) >= 1
    /\ AbCalls[1].concurrency = 50
    /\ AbCalls[1].ok

\* C7: the load-tool runs of one layer are in ascending order of concurrency,
\* for every requested list, and the layers are probed in discovery order.
C7_AscendingOrder ==
    /\ \A i, j \in 1..Len(AbCalls) :
           (i < j /\ AbCalls[i].layer = AbCalls[j].layer) =>
               AbCalls[i].concurrency <= AbCalls[j].concurrency
    /\ LET probes == SelectSeq(calls, LAMBDA c : c.kind = "probe")
       IN  /\ Len(probes) <= Len(layers)
           /\ \A n \in 1..Len(probes) : probes[n].layer = layers[n]

\* C8: no two results of a session share a test id, and no (layer,
\* concurrency) pair is run twice in a sweep, for every requested list.
C8_UniqueTestIds ==
    /\ pc = "done" =>
           \A i, j \in 1..Len(all_results) :
               all_results[i].test_id = all_results[j].test_id => i = j
    /\ \A i, j \in 1..Len(AbCalls) :
           (/\ AbCalls[i].layer = AbCalls[j].layer
            /\ AbCalls[i].concurrency = AbCalls[j].concurrency) => i = j

\* C9: targets_tested of the consolidated record lists each target of the
\* results handed to consolidate_results exactly once and nothing else, so a
\* discovered layer without a successful run is not in it.
C9_TargetsTested ==
    SweepRecorded =>
        LET tested == SweepRecord.test_suite.targets_tested
        IN  /\ Range(tested) =
                   {store_in.results[k].target : k \in 1..Len(store_in.results)}
            /\ \A i, j \in 1..Len(tested) : tested[i] = tested[j] => i = j
            /\ \A n \in 1..Len(layers) :
                   (\A k \in 1..Len(AbCalls) :
                        ~(AbCalls[k].layer = layers[n] /\ AbCalls[k].ok))
                       => layers[n] \notin Range(tested)

\* a record written by a sweep over two layers, one skipped as inaccessible
\* and one tested with success on both of two levels
C9_Witness ==
    /\ SweepRecorded
    /\ Len(layers) = 2
    /\ Len(AccessibleLayers) = 1
    /\ Len(all_results) = 2
    /\ Len(SweepRecord.test_suite.targets_tested) = 1

\* C11: whenever discover_layers has returned false the layer map is empty,
\* also when an earlier discovery had filled it, and whenever it has returned
\* true the map is not empty.
C11_DiscoveryFailureLeavesMapEmpty ==
    /\ discovered = "false" => layers = <<>>
    /\ discovered = "true" => layers # <<>>

\* C13: after every run of the load tool, whatever its outcome (exit 0, other
\* exit code, timeout), the .log file of that test is in the result directory.
C13_LogWrittenWhateverOutcome ==
    InSweep =>
        \A k \in 1..Len(AbCalls) :
            ArtifactPath(AbCalls[k].test_id, "log") \in DOMAIN files

\* some line of the report holds the label
SomeLine(output, label) ==
    \E i \in 1..Len(output) : Contains(output[i], label)

MetricNames == {"requests_per_second", "mean_response_time", "failed_requests",
                "total_time", "transfer_rate"}

\* C14: the map parse_ab_output returns holds a metric exactly when some line
\* of the report holds that metric's label (for the mean response time, one
\* line holding both "Time per request:" and "(mean)"), and nothing else.
C14_MetricPresentIffLabelled ==
    unit_op = "parse" =>
        LET output == unit_in.output
            has(m) == m \in DOMAIN unit_out
        IN  /\ DOMAIN unit_out \subseteq MetricNames
            /\ has("requests_per_second") <=> SomeLine(output, LabelRps)
            /\ has("mean_response_time") <=>
                   \E i \in 1..Len(output) :
                       /\ Contains(output[i], LabelTime)
                       /\ Contains(output[i], LabelMean)
            /\ has("failed_requests") <=> SomeLine(output, LabelFailed)
            /\ has("total_time") <=> SomeLine(output, LabelTaken)
            /\ has("transfer_rate") <=> SomeLine(output, LabelRate)

\* a report with a "Time per request:" line that is not the "(mean)" one and a
\* "Failed requests:" line: only the failed requests are in the map
C14_Witness ==
    /\ unit_op = "parse"
    /\ unit_in.output = <<LineMeanAll, LineFailed40>>
    /\ DOMAIN unit_out = {"failed_requests"}
    /\ unit_out["failed_requests"] = 40

\* the failed requests a report states: the value of its last "Failed
\* requests:" line, or 0 when it has none
StatedFailures(output) ==
    IF SomeLine(output, LabelFailed)
    THEN LET i == CHOOSE n \in 1..Len(output) :
                      /\ Contains(output[n], LabelFailed)
                      /\ \A j \in (n + 1)..Len(output) :
                             ~Contains(output[j], LabelFailed)
         IN  int(output[i][3])
    ELSE 0

\* C15: the success rate of a completed test is (total_requests - failed) /
\* total_requests * 100 with failed the stated failures of the report, 0 when
\* there is no "Failed requests:" line (then the rate is 100); 1000 requests
\* with 40 failures give 96; with 0 <= failed <= total the rate is in 0..100.
C15_SuccessRate ==
    unit_op = "result" =>
        LET total  == unit_in.total_requests
            failed == StatedFailures(unit_in.output)
            rate   == unit_out.success_rate
        IN  /\ unit_out.failed_requests = failed
            /\ rate.den > 0
            /\ rate.num * total = (total - failed) * 100 * rate.den
            /\ ~SomeLine(unit_in.output, LabelFailed) => rate.num = 100 * rate.den
            /\ (total = 1000 /\ failed = 40) => rate.num = 96 * rate.den
            /\ (0 <= failed /\ failed <= total) =>
                   (0 <= rate.num /\ rate.num <= 100 * rate.den)

\* a test of 1000 requests whose report states 40 failed requests
C15_Witness ==
    /\ unit_op = "result"
    /\ unit_in.total_requests = 1000
    /\ SomeLine(unit_in.output, LabelFailed)
    /\ unit_out.failed_requests = 40
    /\ unit_out.success_rate.num = 96 * unit_out.success_rate.den

\* C17: a probe never raises and sends at most one tile request; it reports
\* accessible exactly when a response with status 200 came back and returns
\* the status code of the response; it returns (false, 0) when the request
\* failed at the network level or no server URL is configured.
C17_ProbeNeverRaises ==
    unit_op \in {"probe", "layer_access"} =>
        LET status    == unit_in.status
            responded == unit_in.url # "" /\ status # NoResponse
        IN  /\ ~unit_out.raised
            /\ unit_out.requests <= 1
            /\ unit_in.url # "" => unit_out.requests = 1
            /\ unit_out.accessible <=> (responded /\ status = 200)
            /\ responded => unit_out.status_code = status
            /\ ~responded => (~unit_out.accessible /\ unit_out.status_code = 0)

\* test_connectivity has been called on a tester without a server URL
C17_Witness ==
    /\ unit_op = "probe"
    /\ unit_in.url = ""
    /\ ~unit_out.accessible
    /\ unit_out.status_code = 0
    /\ ~unit_out.raised

\* the consolidated files of the directory
ConsolidatedFiles == {p \in DOMAIN files : p.kind = "consolidated"}

\* the sweep has cleared the result directory and has not returned yet
DirectoryCleared == pc \in {"stamp", "probe", "test", "consolidate", "done"}

\* the per-test metadata files of the result directory
MetadataFiles == {p \in DOMAIN files : p.kind = "json"}

\* C16: a failed load-tool run leaves no result and no metadata file, a
\* successful one leaves one metadata file named by its test id; when the
\* sweep returns, the metadata files of the directory and the results of the
\* returned list correspond one to one.
C16_MetadataOneToOne ==
    /\ DirectoryCleared =>
           \A p \in MetadataFiles :
               \E k \in 1..Len(AbCalls) :
                   AbCalls[k].ok /\ p = ArtifactPath(AbCalls[k].test_id, "json")
    /\ pc = "done" =>
           /\ \A k \in 1..Len(all_results) :
                  ArtifactPath(all_results[k].test_id, "json") \in MetadataFiles
           /\ Cardinality(MetadataFiles) = Len(all_results)

\* C18: whatever the probes and the runs of the load tool come to, for every
\* total_requests and concurrency list, a sweep that has started never ends
\* in an exception and goes through all layers to the point where it returns
\* its result list.
C18_SweepRunsToItsEnd ==
    /\ [](pc # "raised")
    /\ (pc = "clear") ~> (pc = "done" /\ li = Len(layers) + 1)

\* a sweep is about to return after an inaccessible layer and, on the other
\* layer, one failed and one successful run of the load tool
C18_Witness ==
    /\ pc = "done"
    /\ Len(layers) = 2
    /\ Len(AccessibleLayers) = 1
    /\ Len(AbCalls) = 2
    /\ ~AbCalls[1].ok
    /\ AbCalls[2].ok
    /\ Len(all_results) = 1

\* C19: in every consolidated record, every result carries the timestamp of
\* the record's test_suite and a test id ending in it, for comprehensive
\* sweeps and for single-layer sessions alike.
C19_ResultsCarrySessionTimestamp ==
    \A p \in ConsolidatedFiles :
        \A k \in 1..Len(files[p].results) :
            /\ files[p].results[k].timestamp = files[p].test_suite.timestamp
            /\ files[p].results[k].test_id[3] = files[p].test_suite.timestamp

\* C20: the clear step of a comprehensive sweep leaves every consolidated
\* record of an earlier session in the result directory, with its content
\* unchanged; it removes per-test artifacts only.
C20_ClearKeepsEarlierRecords ==
    [][pc = "clear" /\ pc' = "stamp" =>
          \A p \in ConsolidatedFiles :
              /\ p \in DOMAIN files'
              /\ files'[p] = files[p]]_vars

\* the consolidated records of the directory that carry timestamp ts
RecordsOf(ts) == {p \in ConsolidatedFiles : files[p].test_suite.timestamp = ts}

\* C21: when a sweep has reached its end, exactly one consolidated record of
\* the sweep's timestamp is in the result directory, and it holds the whole
\* result list and the test configuration of the sweep, also when the result
\* list is empty (every layer inaccessible or every test failed).
C21_SweepAlwaysConsolidates ==
    pc = "done" =>
        /\ Cardinality(RecordsOf(timestamp)) = 1
        /\ ConsolidatedTarget(SERVICE_TYPE, timestamp) \in DOMAIN files
        /\ SweepRecord.results = ResultsArray(all_results)
        /\ SweepRecord.configuration = SweepConfig

\* C22: at every moment of a sweep at most one run of the load tool is in
\* flight, it is the run of the pair the sweep is at, and it is gone (ended
\* or timed out) before the next probe or run begins.
C22_StrictlySequential ==
    /\ Cardinality(running) <= 1
    /\ pc # "ab" => running = {}
    /\ pc = "ab" =>
           running = {TestId(layers[li], concurrency_levels[ci], timestamp)}

\* a run on the first layer has failed and the sweep is at the probe of the
\* second layer
C22_Witness ==
    /\ pc = "probe"
    /\ li = 2
    /\ Len(AbCalls) >= 1
    /\ ~AbCalls[Len(AbCalls)].ok
    /\ running = {}

\* C23: with two orchestrators sweeping on one result directory, the clear
\* step of either one empties the directory whatever the other has written
\* into it, per-test artifacts and consolidated record alike; so there are
\* interleavings after which a finished session's files are missing.
C23_ClearDeletesOthersFiles ==
    [][((pc = "clear" /\ pc' = "stamp") \/
        (other.pc = "clear" /\ other'.pc = "stamp")) => files' = NoFiles]_vars

\* both sweeps have finished, in different seconds; the first process had
\* a successful test and wrote its record, and neither its record nor the
\* metadata of its test is in the directory, while the second's record is
C23_Witness ==
    /\ pc = "done"
    /\ other.pc = "done"
    /\ timestamp # other.timestamp
    /\ all_results # <<>>
    /\ store_in.results = all_results
    /\ ConsolidatedTarget(SERVICE_TYPE, timestamp) \notin DOMAIN files
    /\ ArtifactPath(all_results[1].test_id, "json") \notin DOMAIN files
    /\ ConsolidatedTarget(SERVICE_TYPE, other.timestamp) \in DOMAIN files

\* the elements other than the root that are ns:Layer children of an
\* ns:Layer which is not the root
NestedLayers(doc, ns) ==
    {j \in 1..Len(doc) :
        /\ doc[j].tag = <<ns, "Layer">>
        /\ doc[j].parent \notin {0, 1}
        /\ doc[doc[j].parent].tag = <<ns, "Layer">>}

\* the ns:Layer elements below the root with an ns:Name child
NamedLayers(doc, ns) ==
    {j \in 2..Len(doc) :
        /\ doc[j].tag = <<ns, "Layer">>
        /\ \E c \in 1..Len(doc) : doc[c].parent = j /\ doc[c].tag = <<ns, "Name">>}

\* the elements whose tag ends in Layer with a child whose tag ends in Name
LayerLike(doc) ==
    {j \in 1..Len(doc) :
        /\ EndsWithLayer(doc[j].tag)
        /\ \E c \in 1..Len(doc) : doc[c].parent = j /\ EndsWithName(doc[c].tag)}

\* the match sets of the four structural queries, in their order
QueryMatches(doc) ==
    <<NestedLayers(doc, "wms"), NestedLayers(doc, ""),
      NamedLayers(doc, "wms"), NamedLayers(doc, "")>>

\* C24: the candidate layers are the matches of the first of the four
\* structural queries (namespaced nested, plain nested, namespaced named,
\* plain named) that matches anything, whatever the later queries match;
\* the scan for Layer-like elements is used only when all four match nothing.
C24_FirstQueryWins ==
    unit_op = "layers" =>
        LET doc        == unit_in.doc
            m          == QueryMatches(doc)
            candidates == unit_out.candidates
        IN  /\ \A i, j \in 1..Len(candidates) : candidates[i] = candidates[j] => i = j
            /\ \A n \in 1..4 :
                   (m[n] # {} /\ \A k \in 1..(n - 1) : m[k] = {}) =>
                       Range(candidates) = m[n]
            /\ (\A n \in 1..4 : m[n] = {}) => Range(candidates) = LayerLike(doc)

\* a document with namespaced nested layers and a plain named layer: the
\* candidates are the nested ones, the plain one is not among them
C24_Witness ==
    /\ unit_op = "layers"
    /\ QueryMatches(unit_in.doc)[1] # {}
    /\ QueryMatches(unit_in.doc)[4] # {}
    /\ Range(unit_out.candidates) = QueryMatches(unit_in.doc)[1]
    /\ QueryMatches(unit_in.doc)[4] \cap Range(unit_out.candidates) = {}

\* the stripped text of the Name / Title child of element j, "" without one
ChildText(doc, j, local) ==
    IF find_child(doc, j, local) = 0 THEN ""
    ELSE strip(doc[find_child(doc, j, local)].text)

\* C25: the returned layer list holds exactly the candidates that have a
\* name, in document order, each with its own title or, without one, its
\* name as title; a candidate without name is dropped and nothing fails.
C25_NamedCandidatesReturned ==
    unit_op = "layers" =>
        LET doc   == unit_in.doc
            named == SelectSeq(unit_out.candidates,
                               LAMBDA j : ChildText(doc, j, "Name") # "")
        IN  /\ Len(unit_out.layers) = Len(named)
            /\ \A k \in 1..Len(named) :
                   /\ unit_out.layers[k].name = ChildText(doc, named[k], "Name")
                   /\ unit_out.layers[k].title =
                          IF ChildText(doc, named[k], "Title") # ""
                          THEN ChildText(doc, named[k], "Title")
                          ELSE ChildText(doc, named[k], "Name")
            /\ \A k \in 1..(Len(named) - 1) : named[k] < named[k + 1]

\* the SRS and CRS identifiers listed under element j, in either namespace
ListedSrs(doc, j) ==
    {doc[c].text : c \in {d \in 1..Len(doc) :
                              /\ IsUnder(doc, d, j)
                              /\ doc[d].tag[1] \in {"wms", ""}
                              /\ doc[d].tag[2] \in {"SRS", "CRS"}
                              /\ doc[d].text # ""}}

\* C26: the SRS/CRS identifiers of a parsed layer are collected from
\* namespaced and plain tags alike, as its keywords are: a layer of a plain
\* (1.1.1-shape) document that lists SRS children has them in its srs_list.
C26_SrsCollectedLikeKeywords ==
    unit_op = "layers" =>
        \A k \in 1..Len(unit_out.candidates) :
            unit_out.infos[k].parsed =>
                Range(unit_out.infos[k].srs_list) =
                    ListedSrs(unit_in.doc, unit_out.candidates[k])

\* the file at path p was written by the current sweep: it is the log or
\* the metadata of one of its load-tool runs, or its consolidated record
WrittenByThisSweep(p) ==
    \/ /\ p.kind \in {"log", "json"}
       /\ \E k \in 1..Len(AbCalls) : AbCalls[k].test_id = p.name
    \/ /\ p = ConsolidatedTarget(SERVICE_TYPE, timestamp)
       /\ files[p].results = ResultsArray(all_results)

\* C27: the sweep clears the result directory after planning and before it
\* takes its timestamp, probes, runs the load tool or writes a file; so
\* when the sweep returns every file of the directory was written by it.
C27_ClearComesFirst ==
    /\ pc = "clear" =>
           /\ concurrency_levels =
                  EnsureLevels(TrimLevels(requested, total_requests), total_requests)
           /\ timestamp = -1
           /\ calls = <<>>
    /\ pc = "stamp" =>
           /\ files = NoFiles
           /\ timestamp = -1
           /\ calls = <<>>
    /\ pc = "done" => \A p \in DOMAIN files : WrittenByThisSweep(p)

\* a second sweep of the tester is about to return, a second after the
\* first, with its logs, metadata and record in the directory
C27_Witness ==
    /\ pc = "done"
    /\ sweeps = 2
    /\ timestamp = 1
    /\ Cardinality(DOMAIN files) >= 3
    /\ Cardinality(ConsolidatedFiles) = 1

\* C29: set_server_url leaves the layer map and the service info empty, a
\* discovery that fails leaves them empty, so they stay empty until a
\* discovery succeeds; and a layer map that is not empty was filled from the
\* server URL that is configured now.
C29_EmptyUntilDiscovered ==
    [][/\ discovered' = "none" => (layers' = <<>> /\ service_info' = {})
       /\ (discovered' = "false" /\ layers = <<>> /\ service_info = {}) =>
              (layers' = <<>> /\ service_info' = {})
       /\ layers' # <<>> => layers_url' = server_url']_vars

\* the keys of the metrics parse_ab_output fills in
MetricKeys == {"requests_per_second", "mean_response_time", "failed_requests",
               "total_time", "transfer_rate"}

\* C30: run_apache_bench lets no exception out and answers every failure
\* with (False, {"error": ...}); when the tool has exited with code 0 and
\* its report holds a labelled line without a readable value, the call
\* fails, none of the metrics is returned and run_single_test builds no
\* BenchmarkResult.
C30_AdapterNeverRaises ==
    unit_op = "ab" =>
        /\ ~unit_out.raised
        /\ ~unit_out.success => DOMAIN unit_out.ab_results = {"error"}
        /\ (/\ unit_in.outcome = "ok"
            /\ \E k \in DOMAIN unit_in.output : unit_in.output[k] \in MalformedLines) =>
               /\ ~unit_out.success
               /\ DOMAIN unit_out.ab_results \cap MetricKeys = {}
               /\ unit_out.result = "None"
\* the tool has exited with code 0 and its report has a line the parser
\* reads after which a labelled line has no value
C30_Witness ==
    /\ unit_op = "ab"
    /\ unit_in.outcome = "ok"
    /\ unit_in.output = <<LineFailed40, <<"Requests", "per", "second:">> >>
    /\ unit_out.result = "None"

\* a failed discovery has ended the entry point, which takes no step after
\* it: nothing is cleared, probed, run or stored
EntryPointStopped ==
    pc = "exit" => UNCHANGED <<files, calls, sweeps, pc, all_results, store_in>>

\* C12: when discover_layers returns false the entry point returns at once,
\* and from then on no sweep step happens: the result directory, the list of
\* probes and load-tool runs and the stored records stay as they are.
C12_NoSweepAfterFailedDiscovery ==
    [][/\ discovered' = "false" => pc' = "exit"
       /\ EntryPointStopped]_vars

\* discovery has failed in an entry point whose tester has a server URL
C12_Witness ==
    /\ discovered = "false"
    /\ server_url # ""
    /\ pc = "exit"
    /\ sweeps = 0
    /\ files = NoFiles

(***************************************************************************)
(* Properties of the result store on its own (StoreSpec)                   *)
(***************************************************************************)
\* the file the last consolidate_results call wrote
StoredPath == ConsolidatedTarget(store_in.service_type, store_in.timestamp)

\* C2: a consolidate_results call leaves every consolidated file of a
\* session with another timestamp in place with the same content, and writes
\* its own record to a different file.
C2_OtherSessionsUntouched ==
    [][store_calls' = store_calls + 1 =>
          \A p \in ConsolidatedFiles :
              files[p].test_suite.timestamp # store_in'.timestamp =>
                  /\ p \in DOMAIN files'
                  /\ files'[p] = files[p]
                  /\ p # ConsolidatedTarget(store_in'.service_type,
                                            store_in'.timestamp)
                  /\ ConsolidatedTarget(store_in'.service_type,
                                        store_in'.timestamp) \in DOMAIN files']_vars

\* session A (one second) and then session B (the next second) have been
\* consolidated into the same directory, and both files are there
C2_Witness ==
    /\ store_calls = 2
    /\ store_in.timestamp = 1
    /\ Cardinality(ConsolidatedFiles) = 2
    /\ \E p \in ConsolidatedFiles :
           /\ files[p].test_suite.timestamp = 0
           /\ Len(files[p].results) = 2

\* C28: the file a consolidation writes is determined by the service type
\* and the session timestamp alone: a session that gets the timestamp of an
\* earlier session of the same service type writes to that session's file,
\* and the file then holds the later session's record only; no other file
\* is touched.
C28_SameTimestampSameFile ==
    [][store_calls' = store_calls + 1 =>
          LET path == ConsolidatedTarget(store_in'.service_type, store_in'.timestamp)
          IN  /\ DOMAIN files' = DOMAIN files \cup {path}
              /\ \A p \in DOMAIN files : p # path => files'[p] = files[p]
              /\ files'[path].results = ResultsArray(store_in'.results)
              /\ files'[path].test_suite.total_tests = Len(store_in'.results)
              /\ (\E p \in ConsolidatedFiles :
                      /\ files[p].test_suite.timestamp = store_in'.timestamp
                      /\ files[p].test_suite.service_type = store_in'.service_type)
                     => DOMAIN files' = DOMAIN files]_vars

\* two sessions have been consolidated within the same second: there is one
\* file, and it holds the two results of the second session
C28_Witness ==
    /\ store_calls = 2
    /\ Cardinality(ConsolidatedFiles) = 1
    /\ Len(store_in.results) = 2
    /\ Len(Reload(files, StoredPath).results) = 2
    /\ Reload(files, StoredPath).results[1].target = store_in.results[1].target

\* C10: the record read back after consolidate_results has one entry per
\* input result, in input order (same target, concurrency and test id at
\* each position), and total_tests is the length of the input.
C10_RoundTrip ==
    store_calls > 0 =>
        LET rec == Reload(files, StoredPath)
        IN  /\ Len(rec.results) = Len(store_in.results)
            /\ rec.test_suite.total_tests = Len(store_in.results)
            /\ \A k \in 1..Len(store_in.results) :
                   /\ rec.results[k].target = store_in.results[k].target
                   /\ rec.results[k].concurrency_level =
                          store_in.results[k].concurrency
                   /\ rec.results[k].test_id = store_in.results[k].test_id

\* a record of two results whose targets are not in sorted order
C10_Witness ==
    /\ store_calls > 0
    /\ Len(store_in.results) = 2
    /\ store_in.results[1].target = "Y"
    /\ store_in.results[2].target = "X"
    /\ Len(Reload(files, StoredPath).results) = 2

====
